---- MODULE Spec2Model ----
(***************************************************************************)
(* Model of the FastAPI scaffold: the application bootstrap (main.py), the *)
(* user route layer (controllers/user_controller.py) and the service layer *)
(* (services/user_service.py).                                             *)
(*                                                                         *)
(* Three ways of exercising the code are modelled:                         *)
(*   - ServeApp:        an HTTP request served by `app` of main.py;        *)
(*   - ServeController: an HTTP request served by `router` of the          *)
(*                      controller module (the routes as they are declared *)
(*                      there, i.e. what include_router would serve);      *)
(*   - the five UserService methods called directly.                       *)
(* A path is the sequence of its segments after the leading "/":           *)
(* "/api/users/" is <<"api", "users", "">>, "/health" is <<"health">>.     *)
(* Text of the environment is a sequence of one-character strings.         *)
(***************************************************************************)
EXTENDS Integers, Sequences, FiniteSets, TLC

\* ----------------------------------------------------------------- bounds
\* Requests and direct calls made in one behaviour.
MaxReqs == 2
\* Longest PORT text enumerated character by character.
MaxPortLen == 3

\* ------------------------------------------------------- Python values
PyNone == [type |-> "NoneType"]
PyList(xs) == [type |-> "list", items |-> xs]
PyBool(b) == [type |-> "bool", truth |-> b]
PyDict(d) == [type |-> "dict", entries |-> d]
\* An instance of models.user.User (the schema itself is not in this repository).
PyUser(i) == [type |-> "User", id |-> i]

\* ------------------------------------------------------------- inputs
\* Path segments offered as user_id.
UserIds == {"1", "abc"}

NoBody == [present |-> FALSE, conforms |-> FALSE, id |-> ""]
\* A JSON request body: it conforms to the UserCreate/UserUpdate schema or not.
BadBody == [present |-> TRUE, conforms |-> FALSE, id |-> ""]
UserData == {[present |-> TRUE, conforms |-> TRUE, id |-> i] : i \in UserIds}
Payloads == {NoBody, BadBody} \cup UserData

Methods == {"GET", "POST", "PUT", "DELETE"}

Paths ==
    { <<"health">>, <<"health", "">>, <<"docs">>,
      <<"api", "users">>, <<"api", "users", "">>,
      <<"api", "users", "1", "x">> }
    \cup { <<"api", "users", i>> : i \in UserIds }

\* The values PORT can have in the environment once load_dotenv() has run.
Unset == [set |-> FALSE, text |-> <<>>]
Text(t) == [set |-> TRUE, text |-> t]
Environments ==
    {Unset, Text(<<"8", "0", "8", "0">>), Text(<<"a", "b", "c">>)}

\* Every text of at most MaxPortLen of these characters, and some longer ones.
PortChars == {"0", "8", "5", " ", "-", "+", "_", "a"}
PortTexts ==
    UNION {[1..k -> PortChars] : k \in 0..MaxPortLen}
    \cup { <<"8", "0", "0", "0">>, <<"6", "5", "5", "3", "5">>,
           <<"6", "5", "5", "3", "6">>, <<"7", "0", "0", "0", "0">>,
           <<" ", "8", "0", "8", "0", "\n">>, <<"8", "_", "0", "8", "0">>,
           <<"8", "0", ".", "5">>, <<"0", "x", "1", "F">> }
BootEnvironments == {Unset} \cup {Text(t) : t \in PortTexts}

\* ------------------------------------------- services/user_service.py
UserService_get_all == PyList(<<>>)

UserService_get_by_id_seeded(user_id) ==
    IF user_id = "1" THEN PyUser(user_id) ELSE PyNone

UserService_get_by_id(user_id) == PyNone

\* `pass`: the coroutine ends without a return statement.
UserService_create(user_data) == PyNone

UserService_update(user_id, user_data) == PyNone

UserService_delete_truthy(user_id) == PyBool(TRUE)

UserService_delete(user_id) == PyBool(FALSE)

\* ------------------------------------- controllers/user_controller.py
\* What a handler does: it returns a value or raises HTTPException, and
\* `calls` lists the UserService methods it invoked on the way.
Return(v, calls) ==
    [raised |-> FALSE, status_code |-> 0, detail |-> "", value |-> v, calls |-> calls]
Raise(code, detail, calls) ==
    [raised |-> TRUE, status_code |-> code, detail |-> detail, value |-> PyNone,
     calls |-> calls]

get_all_users_delegating == Return(UserService_get_all, <<"get_all">>)

get_all_users == Return(PyList(<<>>), <<>>)

get_user_found(user_id) ==
    IF user_id = "1" THEN Return(PyUser(user_id), <<>>)
    ELSE Raise(404, "User not found", <<>>)

get_user(user_id) == Raise(404, "User not found", <<>>)

create_user_echo(user_data) == Return(PyUser(user_data.id), <<>>)

create_user(user_data) == Return(PyNone, <<>>)

update_user(user_id, user_data) == Return(PyNone, <<>>)

delete_user(user_id) == Return(PyNone, <<>>)

\* Routes in declaration order: the decorators of lines 8, 15, 22, 29, 36 under
\* the prefix of line 5. has_body: the handler takes a request-body parameter.
Route(method, path, endpoint, status_code, response_model, has_body) ==
    [method |-> method, path |-> path, endpoint |-> endpoint,
     status_code |-> status_code, response_model |-> response_model,
     has_body |-> has_body]

RouterRoutes ==
    << Route("GET", <<"api", "users", "">>, "get_all_users", 200, "List[User]", FALSE),
       Route("GET", <<"api", "users", "{user_id}">>, "get_user", 200, "User", FALSE),
       Route("POST", <<"api", "users", "">>, "create_user", 201, "User", TRUE),
       Route("PUT", <<"api", "users", "{user_id}">>, "update_user", 200, "User", TRUE),
       Route("DELETE", <<"api", "users", "{user_id}">>, "delete_user", 204, "none", FALSE) >>

ControllerHandlers ==
    {"get_all_users", "get_user", "create_user", "update_user", "delete_user"}

\* --------------------------------------------------------------- main.py
health_check_short_version ==
    Return(PyDict([status |-> "ok", version |-> "1.0"]), <<>>)

health_check == Return(PyDict([status |-> "ok", version |-> "1.0.0"]), <<>>)

\* FastAPI(...) registers its documentation routes in the constructor; the
\* application then adds /health. include_router is commented out.
FrameworkRoutes ==
    << Route("GET", <<"openapi.json">>, "openapi", 200, "none", FALSE),
       Route("GET", <<"docs">>, "swagger_ui_html", 200, "none", FALSE),
       Route("GET", <<"docs", "oauth2-redirect">>, "swagger_ui_redirect", 200, "none", FALSE),
       Route("GET", <<"redoc">>, "redoc_html", 200, "none", FALSE) >>

FrameworkEndpoints == {FrameworkRoutes[k].endpoint : k \in 1..Len(FrameworkRoutes)}

AppRoutes_with_router ==
    FrameworkRoutes
    \o << Route("GET", <<"health">>, "health_check", 200, "none", FALSE) >>
    \o RouterRoutes

AppRoutes ==
    FrameworkRoutes \o << Route("GET", <<"health">>, "health_check", 200, "none", FALSE) >>

\* ------------------------------------------------- request handling
\* The endpoint a route names, called with the path parameter and the body.
CallEndpoint(endpoint, user_id, user_data) ==
    CASE endpoint = "get_all_users" -> get_all_users
      [] endpoint = "get_user" -> get_user(user_id)
      [] endpoint = "create_user" -> create_user(user_data)
      [] endpoint = "update_user" -> update_user(user_id, user_data)
      [] endpoint = "delete_user" -> delete_user(user_id)
      [] endpoint = "health_check" -> health_check
      [] OTHER -> Return([type |-> "Response", content |-> endpoint], <<>>)

JsonBody(v) == [kind |-> "json", value |-> v]
TextBody(t) == [kind |-> "text", text |-> t]
EmptyBody == [kind |-> "empty"]
Response(status, body) == [status |-> status, body |-> body]
ErrorResponse(status, detail) == Response(status, JsonBody(PyDict([detail |-> detail])))

\* Whether a returned value satisfies a route's response_model.
Validates(response_model, v) ==
    CASE response_model = "User" -> v.type = "User"
      [] response_model = "List[User]" ->
            /\ v.type = "list"
            /\ \A k \in 1..Len(v.items) : v.items[k].type = "User"
      [] OTHER -> TRUE

BodyAllowed(status_code) ==
    ~(status_code < 200 \/ status_code = 204 \/ status_code = 304)

\* The response the framework builds from what the handler of `route` did.
Serialize(route, result) ==
    IF result.raised
      THEN ErrorResponse(result.status_code, result.detail)
      ELSE IF result.value.type = "Response"
        THEN Response(200, TextBody(result.value.content))
        ELSE IF ~Validates(route.response_model, result.value)
          THEN Response(500, TextBody("Internal Server Error"))
          ELSE IF BodyAllowed(route.status_code)
            THEN Response(route.status_code, JsonBody(result.value))
            ELSE Response(route.status_code, EmptyBody)

IsParam(segment) == segment = "{user_id}"

PathMatches(pattern, path) ==
    /\ Len(pattern) = Len(path)
    /\ \A k \in 1..Len(path) :
          IF IsParam(pattern[k]) THEN path[k] # "" ELSE pattern[k] = path[k]

\* The value bound to user_id, "" for a route without the parameter.
PathParam(pattern, path) ==
    IF \E k \in 1..Len(pattern) : IsParam(pattern[k])
      THEN path[CHOOSE k \in 1..Len(pattern) : IsParam(pattern[k])]
      ELSE ""

Match(route, method, path) ==
    IF ~PathMatches(route.path, path) THEN "NONE"
    ELSE IF route.method = method THEN "FULL" ELSE "PARTIAL"

\* The first route of `table` matching at `level`, 0 when there is none.
FirstMatch(table, method, path, level) ==
    LET hits == {k \in 1..Len(table) : Match(table[k], method, path) = level}
    IN  IF hits = {} THEN 0 ELSE CHOOSE k \in hits : \A j \in hits : k <= j

\* The same path with its trailing slash added or removed.
ToggleSlash(path) ==
    IF path[Len(path)] = "" THEN SubSeq(path, 1, Len(path) - 1) ELSE Append(path, "")

NoResult == Return(PyNone, <<>>)
Outcome(endpoint, ran, result, response) ==
    [endpoint |-> endpoint, ran |-> ran, result |-> result, response |-> response]

\* One request through a route table: the route chosen, whether its handler
\* ran, what the handler did and the HTTP response. A body parameter that is
\* missing or does not conform is refused with 422 before the handler runs
\* (the list of validation errors is abridged to one detail text); a path
\* that matches with another method is 405; a path that matches once its
\* trailing slash is toggled is redirected with 307.
Dispatch(table, method, path, payload) ==
    LET full == FirstMatch(table, method, path, "FULL")
        partial == FirstMatch(table, method, path, "PARTIAL")
        other == ToggleSlash(path)
    IN  IF full # 0
          THEN LET route == table[full]
                   result == CallEndpoint(route.endpoint,
                                          PathParam(route.path, path), payload)
               IN  IF route.has_body /\ ~(payload.present /\ payload.conforms)
                     THEN Outcome(route.endpoint, FALSE, NoResult,
                                  ErrorResponse(422, "validation error"))
                     ELSE Outcome(route.endpoint, TRUE, result,
                                  Serialize(route, result))
        ELSE IF partial # 0
          THEN Outcome(table[partial].endpoint, FALSE, NoResult,
                       ErrorResponse(405, "Method Not Allowed"))
        ELSE IF /\ path # <<"">>
                /\ other # <<>>
                /\ \E k \in 1..Len(table) : Match(table[k], method, other) # "NONE"
          THEN Outcome("redirect", FALSE, NoResult, Response(307, EmptyBody))
        ELSE Outcome("not_found", FALSE, NoResult, ErrorResponse(404, "Not Found"))

\* ------------------------------------------------ main.py, __main__
DefaultPort == 8000

PyInt(i) == [type |-> "int", int |-> i]
PyStr(chars) == [type |-> "str", chars |-> chars]

\* os.getenv(key, default): the text of the variable, or the default as given.
getenv(env, default) == IF env.set THEN PyStr(env.text) ELSE default

Whitespace == {" ", "\t", "\n", "\r"}
DigitChars == <<"0", "1", "2", "3", "4", "5", "6", "7", "8", "9">>
IsDigit(c) == \E d \in 1..10 : DigitChars[d] = c
DigitValue(c) == (CHOOSE d \in 1..10 : DigitChars[d] = c) - 1

RECURSIVE lstrip(_)
lstrip(s) == IF s # <<>> /\ Head(s) \in Whitespace THEN lstrip(Tail(s)) ELSE s

RECURSIVE rstrip(_)
rstrip(s) ==
    IF s # <<>> /\ s[Len(s)] \in Whitespace
      THEN rstrip(SubSeq(s, 1, Len(s) - 1))
      ELSE s

\* Decimal digits, a single "_" allowed between two digits.
IsDigitString(s) ==
    /\ s # <<>>
    /\ \A k \in 1..Len(s) :
          \/ IsDigit(s[k])
          \/ /\ s[k] = "_"
             /\ 1 < k /\ k < Len(s)
             /\ IsDigit(s[k - 1]) /\ IsDigit(s[k + 1])

RECURSIVE DigitsValue_no_shift(_, _)
DigitsValue_no_shift(s, acc) ==
    IF s = <<>> THEN acc
    ELSE IF Head(s) = "_" THEN DigitsValue_no_shift(Tail(s), acc)
    ELSE DigitsValue_no_shift(Tail(s), acc + DigitValue(Head(s)))

RECURSIVE DigitsValue(_, _)
DigitsValue(s, acc) ==
    IF s = <<>> THEN acc
    ELSE IF Head(s) = "_" THEN DigitsValue(Tail(s), acc)
    ELSE DigitsValue(Tail(s), 10 * acc + DigitValue(Head(s)))

\* int(x): ok is FALSE where Python raises ValueError.
int(x) ==
    IF x.type = "int" THEN [ok |-> TRUE, val |-> x.int]
    ELSE LET t == rstrip(lstrip(x.chars))
             signed == t # <<>> /\ Head(t) \in {"+", "-"}
             digits == IF signed THEN Tail(t) ELSE t
             sign == IF signed /\ Head(t) = "-" THEN -1 ELSE 1
         IN  IF IsDigitString(digits)
               THEN [ok |-> TRUE, val |-> sign * DigitsValue(digits, 0)]
               ELSE [ok |-> FALSE, val |-> 0]

\* Ports the system hands out when asked to bind port 0.
EphemeralPorts == {49152, 49153}

\* The ports uvicorn.run(port=p) can end up bound to; none when bind rejects p.
BindablePorts(p) ==
    IF p < 0 \/ p > 65535 THEN {}
    ELSE IF p = 0 THEN EphemeralPorts ELSE {p}

\* ----------------------------------------------------------------- state
VARIABLES
    environ,    \* PORT in the process environment
    routes,     \* app.router.routes, in registration order
    phase,      \* "boot", "serving", "ValueError" or "bind_error"
    port,       \* <<p>> once line 35 has assigned the local `port`, else <<>>
    listening,  \* <<p>> while the server socket is bound to p, else <<>>
    n,          \* requests and direct calls made so far
    last,       \* the last request or call and what came of it
    touched,    \* identifiers handed to a create, update or delete that ran
    svcCalls    \* invocations of UserService methods so far

vars == <<environ, routes, phase, port, listening, n, last, touched, svcCalls>>

Exchange(layer, op, path, user_id, payload, outcome) ==
    [layer |-> layer, op |-> op, path |-> path, user_id |-> user_id,
     payload |-> payload, endpoint |-> outcome.endpoint, ran |-> outcome.ran,
     result |-> outcome.result, response |-> outcome.response]

NoExchange ==
    Exchange("none", "", <<>>, "", NoBody,
             Outcome("", FALSE, NoResult, Response(0, EmptyBody)))

Init ==
    /\ environ \in Environments
    /\ routes = AppRoutes
    /\ phase = "boot"
    /\ port = <<>>
    /\ listening = <<>>
    /\ n = 0
    /\ last = NoExchange
    /\ touched = {}
    /\ svcCalls = 0

\* python main.py: lines 33-36.
Start ==
    /\ phase = "boot"
    /\ LET parsed == int(getenv(environ, PyInt(DefaultPort)))
       IN  IF ~parsed.ok
             THEN phase' = "ValueError" /\ port' = <<>> /\ listening' = <<>>
             ELSE /\ port' = <<parsed.val>>
                  /\ IF BindablePorts(parsed.val) = {}
                       THEN phase' = "bind_error" /\ listening' = <<>>
                       ELSE /\ phase' = "serving"
                            /\ \E p \in BindablePorts(parsed.val) : listening' = <<p>>
    /\ UNCHANGED <<environ, routes, n, last, touched, svcCalls>>

\* The identifiers a handler that ran was given to write.
Written(outcome, user_id, payload) ==
    IF ~outcome.ran THEN {}
    ELSE CASE outcome.endpoint = "create_user" -> {payload.id}
           [] outcome.endpoint = "update_user" -> {user_id, payload.id}
           [] outcome.endpoint = "delete_user" -> {user_id}
           [] OTHER -> {}

\* The request bodies sent with a method.
BodiesFor(method) == IF method \in {"POST", "PUT"} THEN Payloads ELSE {NoBody}

Serve(layer, table, method, path, payload) ==
    LET outcome == Dispatch(table, method, path, payload)
        full == FirstMatch(table, method, path, "FULL")
        user_id == IF full = 0 THEN "" ELSE PathParam(table[full].path, path)
    IN  /\ n < MaxReqs
        /\ n' = n + 1
        /\ last' = Exchange(layer, method, path, user_id, payload, outcome)
        /\ touched' = touched \cup Written(outcome, user_id, payload)
        /\ svcCalls' = svcCalls + Len(outcome.result.calls)
        /\ UNCHANGED <<environ, routes, phase, port, listening>>

\* An HTTP request to the running application of main.py.
ServeApp ==
    /\ phase = "serving"
    /\ \E method \in Methods, path \in Paths :
         \E payload \in BodiesFor(method) :
            Serve("app", routes, method, path, payload)

\* An HTTP request served from the routes the controller module declares.
\* main.py does not mount them, so they are exercised apart from the server,
\* whatever became of it. (Start does not read or write what these requests
\* and calls do, so taking it first loses no behaviour.)
ServeController ==
    /\ phase # "boot"
    /\ \E method \in Methods, path \in Paths :
         \E payload \in BodiesFor(method) :
            Serve("controller", RouterRoutes, method, path, payload)

\* A direct call of a UserService method (like the controller's routes, the
\* service is exercised apart from the server; see ServeController).
ServiceCall(op, user_id, payload, value, written) ==
    /\ phase # "boot"
    /\ n < MaxReqs
    /\ n' = n + 1
    /\ last' = Exchange("service", op, <<>>, user_id, payload,
                        Outcome(op, TRUE, Return(value, <<>>), Response(0, EmptyBody)))
    /\ touched' = touched \cup written
    /\ svcCalls' = svcCalls + 1
    /\ UNCHANGED <<environ, routes, phase, port, listening>>

get_all == ServiceCall("get_all", "", NoBody, UserService_get_all, {})

get_by_id ==
    \E user_id \in UserIds :
       ServiceCall("get_by_id", user_id, NoBody, UserService_get_by_id(user_id), {})

create ==
    \E user_data \in UserData :
       ServiceCall("create", "", user_data, UserService_create(user_data),
                   {user_data.id})

update ==
    \E user_id \in UserIds, user_data \in UserData :
       ServiceCall("update", user_id, user_data,
                   UserService_update(user_id, user_data), {user_id, user_data.id})

delete ==
    \E user_id \in UserIds :
       ServiceCall("delete", user_id, NoBody, UserService_delete(user_id), {user_id})

Next ==
    \/ Start
    \/ ServeApp
    \/ ServeController
    \/ get_all
    \/ get_by_id
    \/ create
    \/ update
    \/ delete

Spec == Init /\ [][Next]_vars

\* The bootstrap alone, over every enumerated PORT text.
InitBoot ==
    /\ environ \in BootEnvironments
    /\ routes = AppRoutes
    /\ phase = "boot"
    /\ port = <<>>
    /\ listening = <<>>
    /\ n = 0
    /\ last = NoExchange
    /\ touched = {}
    /\ svcCalls = 0

SpecBoot == InitBoot /\ [][Start]_vars

\* ---------------------------------------------------------------- claims
UsersList == <<"api", "users", "">>
IsUserItem(path) ==
    Len(path) = 3 /\ path[1] = "api" /\ path[2] = "users" /\ path[3] # ""
UnderUsers(path) == Len(path) >= 2 /\ path[1] = "api" /\ path[2] = "users"
IsUserBody(body) == body.kind = "json" /\ body.value.type = "User"
IsNullBody(body) == body.kind = "empty" \/ (body.kind = "json" /\ body.value = PyNone)
Served(layer, method) == last.layer = layer /\ last.op = method

\* C1: every GET /health served by the application is answered with status
\* 200 and the body {"status": "ok", "version": "1.0.0"}, whatever requests
\* and calls came before it.
C1_HealthAlwaysOk ==
    (Served("app", "GET") /\ last.path = <<"health">>) =>
        /\ last.response.status = 200
        /\ last.response.body = JsonBody(PyDict([status |-> "ok", version |-> "1.0.0"]))

\* GET /health served as the second request of a behaviour.
C1_Witness ==
    Served("app", "GET") /\ last.path = <<"health">> /\ n = 2 /\ last.ran

C3_AppListsUsers ==
    (Served("app", "GET") /\ last.path = UsersList) =>
        /\ last.response.status = 200
        /\ last.response.body = JsonBody(PyList(<<>>))

\* C4: the write routes answer with their declared success status when they
\* are given a well-formed request: POST /api/users/ 201, PUT
\* /api/users/{user_id} 200, DELETE /api/users/{user_id} 204 without a body.
C4_DeclaredWriteStatuses ==
    (last.layer = "controller" /\ last.ran) =>
        /\ last.endpoint = "create_user" => last.response.status = 201
        /\ last.endpoint = "update_user" => last.response.status = 200
        /\ last.endpoint = "delete_user" =>
              last.response = Response(204, EmptyBody)

\* C5: create_user, update_user and delete_user return None for every input,
\* and a POST /api/users/ or PUT /api/users/{id} never carries a User body:
\* it ends in an error status.
C5_WritesYieldNoUser ==
    /\ (last.ran /\ last.endpoint \in {"create_user", "update_user", "delete_user"}) =>
          ~last.result.raised /\ last.result.value = PyNone
    /\ (/\ last.layer \in {"app", "controller"}
        /\ \/ last.op = "POST" /\ last.path = UsersList
           \/ last.op = "PUT" /\ IsUserItem(last.path)) =>
          /\ ~IsUserBody(last.response.body)
          /\ last.response.status >= 400 \/ IsNullBody(last.response.body)

\* create_user ran on a conforming body and the response failed validation.
C5_Witness ==
    /\ Served("controller", "POST") /\ last.endpoint = "create_user" /\ last.ran
    /\ last.payload.conforms
    /\ last.response.status = 500

\* C6: the only route the application code registers is GET /health, and no
\* request to a path under /api/users is dispatched to a controller handler.
C6_RouterNeverRegistered ==
    /\ {routes[k].endpoint : k \in 1..Len(routes)} \ FrameworkEndpoints
          = {"health_check"}
    /\ \A k \in 1..Len(routes) : ~UnderUsers(routes[k].path)
    /\ (last.layer = "app" /\ UnderUsers(last.path)) =>
          /\ ~last.ran
          /\ last.endpoint \notin ControllerHandlers
          /\ last.response.status = 404

\* The application was asked for the user list and no handler ran.
C6_Witness ==
    Served("app", "GET") /\ last.path = UsersList /\ last.endpoint = "not_found"

\* C7: nothing is persisted: after any create, update and delete calls, on
\* the controller or on UserService, the list operations return an empty
\* collection and get-by-id returns 404 (controller) or None (service) for
\* every identifier, the ones handed to an earlier write included.
C7_NothingPersisted ==
    /\ (Served("controller", "GET") /\ last.path = UsersList) =>
          last.response = Response(200, JsonBody(PyList(<<>>)))
    /\ Served("service", "get_all") => last.result.value = PyList(<<>>)
    /\ (Served("controller", "GET") /\ IsUserItem(last.path)) =>
          last.response.status = 404
    /\ Served("service", "get_by_id") => last.result.value = PyNone

\* get_by_id asked for an identifier an earlier write was given.
C7_Witness ==
    Served("service", "get_by_id") /\ last.user_id \in touched

\* C8: each UserService method returns the same value whatever its
\* arguments: get_all [], get_by_id None, create None, update None,
\* delete False.
C8_ServiceReturnsConstants ==
    last.layer = "service" =>
        /\ ~last.result.raised
        /\ last.result.value =
              CASE last.op = "get_all" -> PyList(<<>>)
                [] last.op = "delete" -> PyBool(FALSE)
                [] OTHER -> PyNone

\* delete was called on an identifier.
C8_Witness == Served("service", "delete") /\ last.user_id = "abc"

\* C9: a request handled by the controller invokes no UserService method:
\* the count of service invocations is the same after it as before.
C9_ControllerNeverCallsService ==
    [][(last'.layer = "controller" /\ n' = n + 1) =>
          /\ svcCalls' = svcCalls
          /\ last'.result.calls = <<>>]_vars

\* A controller handler ran after a direct service call, and the service
\* was invoked that once only.
C9_Witness ==
    last.layer = "controller" /\ last.ran /\ n = 2 /\ svcCalls = 1

\* Python's str(p) for p >= 0, as one-character strings.
RECURSIVE str(_)
str(p) ==
    IF p < 10 THEN <<DigitChars[p + 1]>>
    ELSE Append(str(p \div 10), DigitChars[(p % 10) + 1])

ProbePorts ==
    {0, 5, 8, 50, 58, 80, 85, 88, 500, 508, 800, 808, 850, 888,
     8000, 65535, 65536, 70000}

HasDigit(text) == \E k \in 1..Len(text) : IsDigit(text[k])

\* C10 as stated: started as a script, the bootstrap always ends up
\* listening, on 8000 when PORT is unset and on the integer PORT names when
\* it is set.
C10_AlwaysListens ==
    phase # "boot" =>
        /\ phase = "serving"
        /\ ~environ.set => listening = <<8000>>
        /\ \A p \in ProbePorts \ {0} : environ = Text(str(p)) => listening = <<p>>

\* C10, amended: the port handed to uvicorn is 8000 when PORT is unset and
\* the integer PORT spells when it is set to a decimal number; the server
\* then listens on that port when it is in 1..65535, on a system-chosen port
\* when it is 0, and fails to bind when it is outside 0..65535. When PORT is
\* set to text int() rejects (text without a digit, for one) the bootstrap
\* raises ValueError and never listens.
C10_PortFromEnvironment ==
    phase # "boot" =>
        /\ ~environ.set => (phase = "serving" /\ port = <<8000>>)
        /\ \A p \in ProbePorts : environ = Text(str(p)) => port = <<p>>
        /\ (environ.set /\ ~HasDigit(environ.text)) => phase = "ValueError"
        /\ phase = "ValueError" <=> port = <<>>
        /\ phase = "serving" <=> listening # <<>>
        /\ port # <<>> =>
              /\ port[1] \in 1..65535 => listening = port
              /\ port[1] = 0 => phase = "serving"
              /\ port[1] \notin 0..65535 => phase = "bind_error"

\* PORT=8000 was parsed and the server listens on it.
C10_Witness ==
    environ = Text(<<"8", "0", "0", "0">>) /\ phase = "serving" /\ listening = <<8000>>

====
